---- MODULE Spec2Model ----
(***************************************************************************)
(* Model of src/fetch_dvol.py: the DVOL fetcher.  One run of main() is a   *)
(* sequence of steps (three chunk requests, deduplication, the price       *)
(* request, the emptiness check, alignment, the summary, and the three     *)
(* phases of the file write: open/truncate, dump, close).                  *)
(*                                                                         *)
(* Units.  Volatility timestamps are epoch milliseconds, price timestamps  *)
(* and the clock are epoch seconds.  Every float value (close, price) is   *)
(* an integer number of thousandths, so round(v, 2) is a real rounding.    *)
(* A date string 'YYYY-MM-DD' is the triple <<year, month, day>>; string   *)
(* order on the zero-padded form is lexicographic order on the triple.     *)
(* Python lists are sequences (item[0] is p[1], item[4] is p[5]).          *)
(***************************************************************************)
EXTENDS Integers, Sequences, FiniteSets, TLC

VARIABLES pc, run, now, end_time, i, all_data, dvol_data, price_data,
          dates, btc_prices, dvol_values, output, file,
          upstream, trace, fileBefore, prevOutput

vars == <<pc, run, now, end_time, i, all_data, dvol_data, price_data,
          dates, btc_prices, dvol_values, output, file,
          upstream, trace, fileBefore, prevOutput>>

(* ---------------------------- bounds ----------------------------------- *)
\* Points the three chunks of one run return in total
MaxPoints == 2
\* Length of the list the price request returns
MaxPriceLen == 2

(* ------------------------ program constants ---------------------------- *)
NumChunks == 3
ChunkDays == 365
MsPerSecond == 1000
HighThreshold == 60000
LowThreshold == 40000

(* ------------------------- Python values ------------------------------- *)
None == [some |-> FALSE, val |-> <<>>]
Some(v) == [some |-> TRUE, val |-> v]
\* Python truthiness of "x" in "if not x" for None or a list
Falsy(x) == ~x.some \/ x.val = <<>>

Last(s) == s[Len(s)]

(* --------------------------- upstream ---------------------------------- *)
\* Volatility points [timestamp_ms, open, high, low, close]
VolPoints ==
  { <<0,        45000, 46000, 44000, 40000>>,    \* 1970-01-01 00:00:00.000
    <<86399999, 45000, 46000, 44000, 59996>>,    \* 1970-01-01 23:59:59.999
    <<86400000, 45000, 46000, 44000, 50004>> }   \* 1970-01-02 00:00:00.000

\* Price points {x: epoch seconds, y: value}
PricePoints ==
  { [x |-> 86399, y |-> 100004],                 \* 1970-01-01 23:59:59
    [x |-> 3600,  y |-> 200006],                 \* 1970-01-01 01:00:00
    [x |-> 86400, y |-> 300000] }                \* 1970-01-02 00:00:00

SeqsUpTo(S, n) == UNION { [1..k -> S] : k \in 0..n }

\* What one chunk request can do: raise, answer without result.data, or
\* answer with a list of points (room: how many more points the model lets
\* all_data take).
ChunkResponses(room) ==
  { [kind |-> "error", data |-> <<>>], [kind |-> "nodata", data |-> <<>>] }
  \cup { [kind |-> "ok", data |-> d] : d \in SeqsUpTo(VolPoints, room) }

\* What the price request can do: raise (transport error, no 'values' key),
\* or answer with a list of values.
PriceResponses ==
  { [kind |-> "error", values |-> <<>>] }
  \cup { [kind |-> "ok", values |-> v] : v \in SeqsUpTo(PricePoints, MaxPriceLen) }

(* ---------------------------- dates ------------------------------------ *)
\* Proleptic Gregorian date of a day number counted from 1970-01-01
CivilFromDays(n) ==
  LET z == n + 719468
      era == z \div 146097
      doe == z - era * 146097
      yoe == (doe - doe \div 1460 + doe \div 36524 - doe \div 146096) \div 365
      doy == doe - (365 * yoe + yoe \div 4 - yoe \div 100)
      mp == (5 * doy + 2) \div 153
      d == doy - (153 * mp + 2) \div 5 + 1
      m == IF mp < 10 THEN mp + 3 ELSE mp - 9
      y == yoe + era * 400 + (IF m <= 2 THEN 1 ELSE 0)
  IN <<y, m, d>>

\* datetime.utcfromtimestamp(seconds).strftime('%Y-%m-%d')
DateOfSeconds(s) == CivilFromDays(s \div 86400)

\* datetime.utcfromtimestamp(timestamp / 1000).strftime('%Y-%m-%d')
DvolDate(item) == DateOfSeconds(item[1] \div MsPerSecond)

\* datetime.utcfromtimestamp(item['x']).strftime('%Y-%m-%d')
PriceDate(item) == DateOfSeconds(item.x)

\* a < b on date strings
DateLess(a, b) ==
  \/ a[1] < b[1]
  \/ a[1] = b[1] /\ a[2] < b[2]
  \/ a[1] = b[1] /\ a[2] = b[2] /\ a[3] < b[3]

(* --------------------------- rounding ---------------------------------- *)
\* round(v, 2) on thousandths: nearest hundredth, ties to even
Round2(v) ==
  LET q == v \div 10
      r == v % 10
  IN IF r < 5 THEN 10 * q
     ELSE IF r > 5 THEN 10 * (q + 1)
     ELSE IF q % 2 = 0 THEN 10 * q ELSE 10 * (q + 1)

\* round(current_dvol / 19.1, 2): v / 19.1 thousandths is v / 191 hundredths
\* (2v = 191(2k+1) has no solution, so there are no ties)
ExpectedDailyMove(v) == 10 * ((2 * v + 191) \div 382)

(* ------------------------ fetch_dvol_data ------------------------------ *)
\* The request parameters of chunk k (0-based), in epoch seconds: the code
\* sends them multiplied by 1000.
ChunkEnd(t, k) == t - ChunkDays * 86400 * k
ChunkStart(t, k) == ChunkEnd(t, k) - ChunkDays * 86400

\* The loop "for item in all_data: if ts not in seen: ..." over the first n
\* items; seen is the set of timestamps of unique.
RECURSIVE DedupeUpTo(_, _)
DedupeUpTo(all, n) ==
  IF n = 0 THEN <<>>
  ELSE LET unique == DedupeUpTo(all, n - 1)
           ts == all[n][1]
       IN IF \E j \in 1..Len(unique) : unique[j][1] = ts
          THEN unique
          ELSE Append(unique, all[n])

\* Variant: no deduplication
DedupeKeepAll(all) == all

Dedupe(all) == DedupeUpTo(all, Len(all))

\* unique.sort(key=lambda x: x[0]): a stable sort on the timestamp
InsertByTs(x, s) ==
  LET k == Cardinality({ j \in 1..Len(s) : s[j][1] <= x[1] })
  IN SubSeq(s, 1, k) \o <<x>> \o SubSeq(s, k + 1, Len(s))

RECURSIVE SortByTs(_)
SortByTs(s) ==
  IF s = <<>> THEN <<>>
  ELSE InsertByTs(Last(s), SortByTs(SubSeq(s, 1, Len(s) - 1)))

\* return unique if unique else None
FetchDvolResult(all) ==
  LET unique == SortByTs(Dedupe(all))
  IN IF unique = <<>> THEN None ELSE Some(unique)

(* -------------------------- process_data ------------------------------- *)
\* Variant: the first point of a day is kept (setdefault)
RECURSIVE DvolByDateFirstWins(_, _)
DvolByDateFirstWins(items, n) ==
  IF n = 0 THEN <<>>
  ELSE DvolByDateFirstWins(items, n - 1) @@ (DvolDate(items[n]) :> items[n][5])

\* dvol_by_date after the first n items: dvol_by_date[date] = close
RECURSIVE DvolByDateUpTo(_, _)
DvolByDateUpTo(items, n) ==
  IF n = 0 THEN <<>>
  ELSE (DvolDate(items[n]) :> items[n][5]) @@ DvolByDateUpTo(items, n - 1)

DvolByDate(items) == DvolByDateUpTo(items, Len(items))

\* price_by_date after the first n items: price_by_date[date] = item['y']
RECURSIVE PriceByDateUpTo(_, _)
PriceByDateUpTo(items, n) ==
  IF n = 0 THEN <<>>
  ELSE (PriceDate(items[n]) :> items[n].y) @@ PriceByDateUpTo(items, n - 1)

PriceByDate(items) == PriceByDateUpTo(items, Len(items))

\* sorted(S) for a set of date strings
RECURSIVE SortedDates(_)
SortedDates(S) ==
  IF S = {} THEN <<>>
  ELSE LET m == CHOOSE x \in S : \A y \in S : y = x \/ DateLess(x, y)
       IN <<m>> \o SortedDates(S \ {m})

\* Variant: the common dates in descending order
CommonDatesDescending(dvol_by_date, price_by_date) ==
  LET asc == SortedDates((DOMAIN dvol_by_date) \cap (DOMAIN price_by_date))
  IN [k \in 1..Len(asc) |-> asc[Len(asc) + 1 - k]]

\* common_dates = sorted(set(dvol_by_date.keys()) & set(price_by_date.keys()))
CommonDates(dvol_by_date, price_by_date) ==
  SortedDates((DOMAIN dvol_by_date) \cap (DOMAIN price_by_date))

\* Variant: a volatility value is emitted for every volatility date
process_data_every_dvol(dvol, price) ==
  LET dvol_by_date == DvolByDate(dvol)
      price_by_date == PriceByDate(price)
      common_dates == CommonDates(dvol_by_date, price_by_date)
      dvol_dates == SortedDates(DOMAIN dvol_by_date)
  IN [dates |-> common_dates,
      btc_prices |-> [k \in 1..Len(common_dates) |->
                        Round2(price_by_date[common_dates[k]])],
      dvol_values |-> [k \in 1..Len(dvol_dates) |->
                        Round2(dvol_by_date[dvol_dates[k]])]]

process_data(dvol, price) ==
  LET dvol_by_date == DvolByDate(dvol)
      price_by_date == PriceByDate(price)
      common_dates == CommonDates(dvol_by_date, price_by_date)
  IN [dates |-> common_dates,
      btc_prices |-> [k \in 1..Len(common_dates) |->
                        Round2(price_by_date[common_dates[k]])],
      dvol_values |-> [k \in 1..Len(common_dates) |->
                        Round2(dvol_by_date[common_dates[k]])]]

(* ------------------------------ main ----------------------------------- *)
\* Variant: the high threshold is exclusive
ClassifyExclusive(current_dvol) ==
  IF current_dvol > HighThreshold THEN <<"high_ko", "High Volatility">>
  ELSE IF current_dvol <= LowThreshold THEN <<"low_ko", "Low Volatility">>
  ELSE <<"normal_ko", "Normal">>

\* The three-way threshold on current_dvol: <<status, status_en>>
Classify(current_dvol) ==
  IF current_dvol >= HighThreshold THEN <<"high_ko", "High Volatility">>
  ELSE IF current_dvol <= LowThreshold THEN <<"low_ko", "Low Volatility">>
  ELSE <<"normal_ko", "Normal">>

NoOutput ==
  [dates |-> <<>>, btc_prices |-> <<>>, dvol |-> <<>>,
   current_price |-> 0, current_dvol |-> 0, expected_daily_move |-> 0,
   status |-> "", status_en |-> "", last_updated |-> 0]

\* The dict "output" of main
BuildOutput(ds, prices, dvols, clock) ==
  LET current_price == Last(prices)
      current_dvol == Last(dvols)
      st == Classify(current_dvol)
  IN [dates |-> ds, btc_prices |-> prices, dvol |-> dvols,
      current_price |-> current_price,
      current_dvol |-> current_dvol,
      expected_daily_move |-> ExpectedDailyMove(current_dvol),
      status |-> st[1], status_en |-> st[2],
      last_updated |-> clock]

\* Content of data.json: empty (just truncated), partial (a proper prefix of
\* the serialization of rec), or complete (all of rec).
FileOf(st, rec) == [state |-> st, rec |-> rec]

\* The record an earlier run, against other upstream data, left in data.json
OldRecord ==
  [dates |-> << <<1969, 12, 31>> >>, btc_prices |-> <<123450>>,
   dvol |-> <<45670>>, current_price |-> 123450, current_dvol |-> 45670,
   expected_daily_move |-> 2390, status |-> "normal_ko",
   status_en |-> "Normal", last_updated |-> 1600000000]

Event(op, arg) == [op |-> op, arg |-> arg]

Init ==
  /\ pc = "main"
  /\ run = 1
  /\ now = 1700000000
  /\ end_time = 0
  /\ i = 0
  /\ all_data = <<>>
  /\ dvol_data = None
  /\ price_data = None
  /\ dates = <<>>
  /\ btc_prices = <<>>
  /\ dvol_values = <<>>
  /\ output = NoOutput
  /\ file = FileOf("complete", OldRecord)
  /\ upstream = [chunks |-> <<>>, price |-> <<>>]
  /\ trace = <<>>
  /\ fileBefore = file
  /\ prevOutput = NoOutput

\* Variant: the output file is opened for writing before anything is fetched
FetchDvolBeginTruncating ==
  /\ pc = "main"
  /\ end_time' = now
  /\ all_data' = <<>>
  /\ i' = 0
  /\ pc' = "chunk"
  /\ file' = FileOf("empty", NoOutput)
  /\ UNCHANGED <<run, now, dvol_data, price_data, dates, btc_prices,
                 dvol_values, output, upstream, trace, fileBefore,
                 prevOutput>>

\* main() is entered; fetch_dvol_data reads the clock and starts the loop
FetchDvolBegin ==
  /\ pc = "main"
  /\ end_time' = now
  /\ all_data' = <<>>
  /\ i' = 0
  /\ pc' = "chunk"
  /\ UNCHANGED <<run, now, dvol_data, price_data, dates, btc_prices,
                 dvol_values, output, file, upstream, trace, fileBefore,
                 prevOutput>>

\* Variant: a failed chunk discards what the earlier chunks returned
ChunkStepDiscarding(resp) ==
  /\ all_data' = IF resp.kind = "ok" THEN all_data \o resp.data
                 ELSE IF resp.kind = "error" THEN <<>> ELSE all_data
  /\ trace' = Append(trace, Event("chunk",
                       <<i, ChunkStart(end_time, i), ChunkEnd(end_time, i)>>))
  /\ i' = i + 1
  /\ pc' = IF i + 1 = NumChunks THEN "dedup" ELSE "chunk"
  /\ now' = now + 1

\* One iteration of "for i in range(3)" with the response resp
ChunkStep(resp) ==
  /\ all_data' = IF resp.kind = "ok" THEN all_data \o resp.data ELSE all_data
  /\ trace' = Append(trace, Event("chunk",
                       <<i, ChunkStart(end_time, i), ChunkEnd(end_time, i)>>))
  /\ i' = i + 1
  /\ pc' = IF i + 1 = NumChunks THEN "dedup" ELSE "chunk"
  /\ now' = now + 1

\* A chunk request of the first run: upstream answers anything
ChunkRequest ==
  /\ pc = "chunk"
  /\ run = 1
  /\ \E resp \in ChunkResponses(MaxPoints - Len(all_data)) :
       /\ ChunkStep(resp)
       /\ upstream' = [upstream EXCEPT !.chunks = Append(@, resp)]
  /\ UNCHANGED <<run, end_time, dvol_data, price_data, dates, btc_prices,
                 dvol_values, output, file, fileBefore, prevOutput>>

\* A chunk request of a later run: upstream answers as it did before
ChunkReplay ==
  /\ pc = "chunk"
  /\ run > 1
  /\ ChunkStep(upstream.chunks[i + 1])
  /\ UNCHANGED <<run, end_time, dvol_data, price_data, dates, btc_prices,
                 dvol_values, output, file, upstream, fileBefore, prevOutput>>

\* Variant: main returns at once when the volatility fetch gave nothing
FetchDvolReturnShortCircuit ==
  /\ pc = "dedup"
  /\ dvol_data' = FetchDvolResult(all_data)
  /\ pc' = IF Falsy(FetchDvolResult(all_data)) THEN "done" ELSE "price"
  /\ UNCHANGED <<run, now, end_time, i, all_data, price_data, dates,
                 btc_prices, dvol_values, output, file, upstream, trace,
                 fileBefore, prevOutput>>

\* Deduplicate, sort and return from fetch_dvol_data
FetchDvolReturn ==
  /\ pc = "dedup"
  /\ dvol_data' = FetchDvolResult(all_data)
  /\ pc' = "price"
  /\ UNCHANGED <<run, now, end_time, i, all_data, price_data, dates,
                 btc_prices, dvol_values, output, file, upstream, trace,
                 fileBefore, prevOutput>>

\* fetch_btc_price_data with the response resp
PriceStep(resp) ==
  /\ price_data' = IF resp.kind = "ok" THEN Some(resp.values) ELSE None
  /\ trace' = Append(trace, Event("price", <<>>))
  /\ pc' = "check"
  /\ now' = now + 1

PriceRequest ==
  /\ pc = "price"
  /\ run = 1
  /\ \E resp \in PriceResponses :
       /\ PriceStep(resp)
       /\ upstream' = [upstream EXCEPT !.price = <<resp>>]
  /\ UNCHANGED <<run, end_time, i, all_data, dvol_data, dates, btc_prices,
                 dvol_values, output, file, fileBefore, prevOutput>>

PriceReplay ==
  /\ pc = "price"
  /\ run > 1
  /\ PriceStep(upstream.price[1])
  /\ UNCHANGED <<run, end_time, i, all_data, dvol_data, dates, btc_prices,
                 dvol_values, output, file, upstream, fileBefore, prevOutput>>

\* if not dvol_data or not price_data: return
CheckFetched ==
  /\ pc = "check"
  /\ pc' = IF Falsy(dvol_data) \/ Falsy(price_data) THEN "done" ELSE "process"
  /\ UNCHANGED <<run, now, end_time, i, all_data, dvol_data, price_data,
                 dates, btc_prices, dvol_values, output, file, upstream,
                 trace, fileBefore, prevOutput>>

\* dates, btc_prices, dvol_values = process_data(...); if not dates: return
ProcessData ==
  /\ pc = "process"
  /\ LET r == process_data(dvol_data.val, price_data.val)
     IN /\ dates' = r.dates
        /\ btc_prices' = r.btc_prices
        /\ dvol_values' = r.dvol_values
        /\ pc' = IF r.dates = <<>> THEN "done" ELSE "summary"
  /\ trace' = Append(trace, Event("align", <<>>))
  /\ UNCHANGED <<run, now, end_time, i, all_data, dvol_data, price_data,
                 output, file, upstream, fileBefore, prevOutput>>

\* The latest values, the classification and the output dict
Summarize ==
  /\ pc = "summary"
  /\ output' = BuildOutput(dates, btc_prices, dvol_values, now)
  /\ trace' = Append(trace, Event("summary", <<>>))
  /\ pc' = "open"
  /\ UNCHANGED <<run, now, end_time, i, all_data, dvol_data, price_data,
                 dates, btc_prices, dvol_values, file, upstream, fileBefore,
                 prevOutput>>

\* open(DATA_FILE, 'w'): the file is created or truncated
OpenFile ==
  /\ pc = "open"
  /\ file' = FileOf("empty", NoOutput)
  /\ trace' = Append(trace, Event("open", <<>>))
  /\ pc' = "dump"
  /\ UNCHANGED <<run, now, end_time, i, all_data, dvol_data, price_data,
                 dates, btc_prices, dvol_values, output, upstream,
                 fileBefore, prevOutput>>

\* json.dump(output, f): the serialization is written piece by piece
JsonDump ==
  /\ pc = "dump"
  /\ file' = FileOf("partial", output)
  /\ pc' = "close"
  /\ UNCHANGED <<run, now, end_time, i, all_data, dvol_data, price_data,
                 dates, btc_prices, dvol_values, output, upstream, trace,
                 fileBefore, prevOutput>>

\* Variant: the new series are appended to those already in the file
CloseFileAppending ==
  /\ pc = "close"
  /\ file' = FileOf("complete",
                [output EXCEPT !.dates = fileBefore.rec.dates \o @,
                               !.btc_prices = fileBefore.rec.btc_prices \o @,
                               !.dvol = fileBefore.rec.dvol \o @])
  /\ trace' = Append(trace, Event("close", <<>>))
  /\ pc' = "done"
  /\ UNCHANGED <<run, now, end_time, i, all_data, dvol_data, price_data,
                 dates, btc_prices, dvol_values, output, upstream,
                 fileBefore, prevOutput>>

\* Leaving the with block: the rest is flushed and the file closed
CloseFile ==
  /\ pc = "close"
  /\ file' = FileOf("complete", output)
  /\ trace' = Append(trace, Event("close", <<>>))
  /\ pc' = "done"
  /\ UNCHANGED <<run, now, end_time, i, all_data, dvol_data, price_data,
                 dates, btc_prices, dvol_values, output, upstream,
                 fileBefore, prevOutput>>

\* The process is stopped from outside during the write
Kill ==
  /\ pc \in {"dump", "close"}
  /\ pc' = "killed"
  /\ UNCHANGED <<run, now, end_time, i, all_data, dvol_data, price_data,
                 dates, btc_prices, dvol_values, output, file, upstream,
                 trace, fileBefore, prevOutput>>

Wrote == \E k \in 1..Len(trace) : trace[k].op = "close"

\* The program is invoked a second time, later, against the same upstream
\* data
SecondRun ==
  /\ pc = "done"
  /\ run = 1
  /\ run' = run + 1
  /\ now' = now + 1
  /\ pc' = "main"
  /\ prevOutput' = IF Wrote THEN file.rec ELSE prevOutput
  /\ fileBefore' = file
  /\ trace' = <<>>
  /\ end_time' = 0
  /\ i' = 0
  /\ all_data' = <<>>
  /\ dvol_data' = None
  /\ price_data' = None
  /\ dates' = <<>>
  /\ btc_prices' = <<>>
  /\ dvol_values' = <<>>
  /\ output' = NoOutput
  /\ UNCHANGED <<file, upstream>>

Next ==
  \/ FetchDvolBegin
  \/ ChunkRequest
  \/ ChunkReplay
  \/ FetchDvolReturn
  \/ PriceRequest
  \/ PriceReplay
  \/ CheckFetched
  \/ ProcessData
  \/ Summarize
  \/ OpenFile
  \/ JsonDump
  \/ CloseFile
  \/ Kill
  \/ SecondRun

Spec == Init /\ [][Next]_vars

(* ===================== properties of the program ======================= *)
Range(s) == { s[k] : k \in 1..Len(s) }
HasEvent(op) == \E k \in 1..Len(trace) : trace[k].op = op
Aligned == HasEvent("align")
Opened == HasEvent("open")
AfterFetch ==
  pc \in {"price", "check", "process", "summary", "open", "dump", "close",
          "done", "killed"}
AfterPrice == AfterFetch /\ pc # "price"
\* The states fetch_dvol_data and process_data return in; what they returned
\* is not assigned again in the run
FetchReturned == pc = "price"
AlignReturned == pc \in {"summary", "done"} /\ Aligned /\ ~Opened

\* What upstream answered in this run, read off the responses themselves
OkFrom(k) ==
  IF upstream.chunks[k].kind = "ok" THEN upstream.chunks[k].data ELSE <<>>
OkData == OkFrom(1) \o OkFrom(2) \o OkFrom(3)
OkTimestamps == { OkData[j][1] : j \in 1..Len(OkData) }
FirstSeen(t) ==
  LET j == CHOOSE a \in 1..Len(OkData) :
             /\ OkData[a][1] = t
             /\ \A b \in 1..Len(OkData) : OkData[b][1] = t => a <= b
  IN OkData[j]
SomeChunkFailed == \E k \in 1..NumChunks : upstream.chunks[k].kind = "error"
PriceValues ==
  IF upstream.price[1].kind = "ok" THEN upstream.price[1].values ELSE <<>>
UpstreamDvolDates == { DvolDate(p) : p \in Range(OkData) }
UpstreamPriceDates == { PriceDate(q) : q \in Range(PriceValues) }
UpstreamCommonDates == UpstreamDvolDates \cap UpstreamPriceDates

\* C1: the list fetch_dvol_data returns is strictly ascending by timestamp:
\* no two of its points have the same timestamp and it is sorted, whatever
\* the chunks returned and in whatever order.
C1_FetchedUniqueSorted ==
  FetchReturned =>
    \A a, b \in 1..Len(dvol_data.val) :
      a < b => dvol_data.val[a][1] < dvol_data.val[b][1]

\* The chunks returned two points newest first, and the fetch returned both
C1_Witness ==
  /\ pc = "price"
  /\ Len(all_data) = 2
  /\ all_data[1][1] > all_data[2][1]
  /\ Len(dvol_data.val) = 2

\* C2: the dates process_data returns are strictly ascending and are exactly
\* the dates that both the volatility points and the price points fall on.
C2_DatesSortedIntersection ==
  AlignReturned =>
    /\ \A k \in 1..(Len(dates) - 1) : DateLess(dates[k], dates[k + 1])
    /\ Range(dates) = { DvolDate(p) : p \in Range(dvol_data.val) }
                      \cap { PriceDate(q) : q \in Range(price_data.val) }

\* Two common dates, the price list giving the later one first
C2_Witness ==
  /\ AlignReturned
  /\ Len(dates) = 2
  /\ Len(price_data.val) = 2
  /\ DateLess(PriceDate(price_data.val[2]), PriceDate(price_data.val[1]))

\* C3: a run in which upstream gave no volatility point, or no price point
\* (the request failed or its list was empty), or no date common to both,
\* never opens data.json: its content stays what it was before the run.
\* (Stated as: after the price request, either the file is untouched and
\* the run is before alignment's end or over, or none of the three holds.)
C3_AbortLeavesFile ==
  AfterPrice =>
    \/ file = fileBefore /\ ~Opened /\ pc \in {"check", "process", "done"}
    \/ OkData # <<>> /\ PriceValues # <<>> /\ UpstreamCommonDates # {}

\* Both sources gave points, on different days; the run ended, file as it was
C3_Witness ==
  /\ pc = "done"
  /\ OkData # <<>>
  /\ PriceValues # <<>>
  /\ UpstreamCommonDates = {}
  /\ file = FileOf("complete", OldRecord)

\* What fetch_dvol_data returns: None exactly when the successful chunks
\* hold no point, and otherwise one point per timestamp of the successful
\* chunks, the first one seen
FetchKeepsSuccessfulChunks ==
  FetchReturned =>
    /\ dvol_data.some <=> OkTimestamps # {}
    /\ Range(dvol_data.val) = { FirstSeen(t) : t \in OkTimestamps }
    /\ Len(dvol_data.val) = Cardinality(OkTimestamps)
\* The run wrote the output built from the points of the successful chunks
WroteFromSuccessfulChunks ==
  /\ Wrote
  /\ file = FileOf("complete", output)
  /\ Range(dvol_data.val) = { FirstSeen(t) : t \in OkTimestamps }
  /\ Range(output.dates) = UpstreamCommonDates

\* C4 as stated: fetch_dvol_data skips a failed or empty chunk and keeps the
\* points of the others, so that every run with a failed chunk and a
\* non-empty union of the others completes and writes the output.
C4_AsStated ==
  /\ FetchKeepsSuccessfulChunks
  /\ (pc = "done" /\ SomeChunkFailed /\ OkTimestamps # {})
       => WroteFromSuccessfulChunks

\* C4: fetch_dvol_data skips a failed or empty chunk and keeps the points of
\* the others (None exactly when the successful chunks hold no point, else
\* their deduplicated union); a run with a failed chunk and a non-empty union
\* whose price data share a date with that union writes the output built
\* from the successful chunks' points.
C4_FailedChunkSkipped ==
  /\ FetchKeepsSuccessfulChunks
  /\ (pc = "done" /\ SomeChunkFailed /\ UpstreamCommonDates # {})
       => WroteFromSuccessfulChunks

\* One chunk failed, one had no data, one returned a point; the run wrote
C4_Witness ==
  /\ pc = "done"
  /\ Wrote
  /\ SomeChunkFailed
  /\ \E k \in 1..NumChunks : upstream.chunks[k].kind = "nodata"
  /\ Len(dvol_data.val) = 1

\* C5: the classification is total and deterministic: a value <= 40 is Low,
\* a value >= 60 is High, anything strictly between is Normal (so 40 is Low
\* and 60 is High), and status and status_en name the same class.
ClassOf(st) ==
  { c \in {"Low", "Normal", "High"} :
      \/ c = "Low" /\ st = <<"low_ko", "Low Volatility">>
      \/ c = "Normal" /\ st = <<"normal_ko", "Normal">>
      \/ c = "High" /\ st = <<"high_ko", "High Volatility">> }
ExpectedClass(v) ==
  IF v <= 40000 THEN "Low" ELSE IF v >= 60000 THEN "High" ELSE "Normal"
C5_ClassificationTotal ==
  /\ pc = "open" =>
       /\ \A v \in {0, 39990, 40000, 40010, 50000, 59990, 60000, 60010, 99990} :
            ClassOf(Classify(v)) = {ExpectedClass(v)}
       /\ output.current_dvol = Last(dvol_values)
  /\ file.state = "complete" =>
       ClassOf(<<file.rec.status, file.rec.status_en>>)
         = {ExpectedClass(file.rec.current_dvol)}

\* The latest common date has 59.996, rounded to exactly 60.0: written as High
C5_Witness ==
  /\ pc = "done"
  /\ Wrote
  /\ file.rec.current_dvol = 60000
  /\ file.rec.status_en = "High Volatility"
  /\ \E p \in Range(dvol_data.val) : p[5] = 59996

\* C6: a reader of data.json always finds a complete record, the previous
\* one or the new one, never an empty or a partly written file.
C6_NoPartialWrite == file.state = "complete"

\* C7: a run against the upstream responses of the run before it writes the
\* record that run wrote, but for last_updated, whatever the file held
\* before either run.
SameButLastUpdated(a, b) ==
  [a EXCEPT !.last_updated = 0] = [b EXCEPT !.last_updated = 0]
C7_Idempotent ==
  (run > 1 /\ pc = "done" /\ Wrote) =>
    /\ file.state = "complete"
    /\ SameButLastUpdated(file.rec, prevOutput)

\* The second run wrote, later than the first and over the first one's
\* record, which itself replaced an older record
C7_Witness ==
  /\ run = 2
  /\ pc = "done"
  /\ Wrote
  /\ file.rec.last_updated > prevOutput.last_updated
  /\ fileBefore.rec = prevOutput
  /\ prevOutput.dates # OldRecord.dates

\* C8: the three sequences process_data returns have the same length, for
\* empty inputs and inputs without a common date too, and so have dates,
\* btc_prices and dvol of every record written.
SameLengths(r) ==
  Len(r.dates) = Len(r.btc_prices) /\ Len(r.dates) = Len(r.dvol_values)
C8_ParallelLengths ==
  /\ Len(dates) = Len(btc_prices)
  /\ Len(dates) = Len(dvol_values)
  /\ pc = "process" =>
       /\ SameLengths(process_data(dvol_data.val, price_data.val))
       /\ SameLengths(process_data(dvol_data.val, <<>>))
       /\ SameLengths(process_data(<<>>, price_data.val))
  /\ Len(file.rec.dates) = Len(file.rec.btc_prices)
  /\ Len(file.rec.dates) = Len(file.rec.dvol)

\* A record of one date was written from volatility points of two days
C8_Witness ==
  /\ pc = "done"
  /\ Wrote
  /\ Len(file.rec.dates) = 1
  /\ Cardinality({ DvolDate(p) : p \in Range(dvol_data.val) }) = 2

\* C9: for every date of the aligned series, the value of each source is the
\* rounded value of the last point of that source's list that falls on the
\* date; for the volatility source that is the close of the point with the
\* largest timestamp of the day.
LastIndex(S) == CHOOSE a \in S : \A b \in S : b <= a
C9_LastWriteWins ==
  AlignReturned =>
    \A k \in 1..Len(dates) :
      LET dv == dvol_data.val
          pv == price_data.val
          D == { j \in 1..Len(dv) : DvolDate(dv[j]) = dates[k] }
          P == { j \in 1..Len(pv) : PriceDate(pv[j]) = dates[k] }
      IN /\ dvol_values[k] = Round2(dv[LastIndex(D)][5])
         /\ \A j \in D : dv[j][1] <= dv[LastIndex(D)][1]
         /\ btc_prices[k] = Round2(pv[LastIndex(P)].y)

\* Two volatility points of one day with different closes, and two prices of
\* that day, the later one in the list being the earlier one in time
C9_Witness ==
  /\ AlignReturned
  /\ Len(dates) = 1
  /\ Len(dvol_data.val) = 2
  /\ dvol_data.val[1][5] # dvol_data.val[2][5]
  /\ Len(price_data.val) = 2
  /\ price_data.val[2].x < price_data.val[1].x
  /\ Round2(price_data.val[1].y) # Round2(price_data.val[2].y)

\* C10: the steps of a run happen in one order: the three chunk requests
\* (adjacent windows, the most recent first), the price request, alignment,
\* summary, the write; nothing is requested twice or after alignment; the
\* price is requested even when no volatility point was fetched; the file is
\* opened at most once, and only with volatility points, price points and a
\* common date at hand.
StepOrder ==
  <<"chunk", "chunk", "chunk", "price", "align", "summary", "open", "close">>
C10_StepOrder ==
  /\ Len(trace) <= Len(StepOrder)
  /\ \A k \in 1..Len(trace) : trace[k].op = StepOrder[k]
  /\ \A k \in 1..Len(trace) : trace[k].op = "chunk" =>
       /\ trace[k].arg[1] = k - 1
       /\ trace[k].arg[2] < trace[k].arg[3]
       /\ k > 1 => trace[k].arg[3] = trace[k - 1].arg[2]
  /\ AfterPrice => HasEvent("price")
  /\ pc \in {"process", "summary"} => ~Falsy(dvol_data) /\ ~Falsy(price_data)
  /\ Opened => ~Falsy(dvol_data) /\ ~Falsy(price_data) /\ dates # <<>>
  /\ (pc = "done" /\ ~Falsy(dvol_data) /\ ~Falsy(price_data)) => Aligned
  /\ (pc = "done" /\ Aligned /\ dates # <<>>) => Wrote

\* No volatility point was fetched and the price was requested all the same
C10_Witness ==
  /\ pc = "done"
  /\ ~dvol_data.some
  /\ price_data.some
  /\ Len(trace) = 4
  /\ trace[4].op = "price"

====
